---- MODULE Spec2Model ----
(***************************************************************************)
(* A model of the cascade stream session: StreamProcessor                  *)
(* (src/cascade/stream/processor.py) driving VADStateMachine               *)
(* (src/cascade/stream/state_machine.py).  The frame buffer, the speech    *)
(* collector and the interruption manager are not part of the available    *)
(* sources; they are modelled from the design document (sections 4.1-4.3). *)
(*                                                                         *)
(* Python's None is the empty sequence <<>> and an object x is <<x>>, so a *)
(* field that may be None always holds a sequence of length 0 or 1.        *)
(***************************************************************************)
EXTENDS Integers, Sequences, FiniteSets, TLC

\* ------------------------------------------------------------------ bounds
\* Frames handed to the state machine driven on its own in one behaviour.
MaxFrames == 4
\* Frames read from the frame buffer by process_chunk in one behaviour.
MaxRead == 3
\* process_chunk calls of one caller in one behaviour.
MaxCalls == 2
\* process_chunk calls of one caller in one behaviour of the lifecycle, where
\* every other operation of the session may run at any time.
MaxLifecycleCalls == 1

\* ------------------------------------------------------- program constants
MAX_CHUNK_SIZE == 524288
BYTES_PER_SAMPLE == 2
FRAME_SAMPLES == 512
FRAME_DURATION_MS == 32
MAX_BUFFER_SAMPLES == 128000
SEMAPHORE_SLOTS == 50

FRAME_BYTES == FRAME_SAMPLES * BYTES_PER_SAMPLE
BUFFER_CAPACITY_BYTES == MAX_BUFFER_SAMPLES * BYTES_PER_SAMPLE

\* Byte lengths of the chunks a caller submits: empty, odd, half a frame,
\* two frames, the largest valid chunk, one byte more.
ChunkSizes == {0, 1023, 512, 2048, MAX_CHUNK_SIZE, MAX_CHUNK_SIZE + 1}

\* The oracle's verdicts (VADIterator: None, {'start': t}, {'end': t}).
Verdicts == {"none", "start", "end"}

\* Debounce windows a session may be configured with
\* (InterruptionConfig.min_interval_ms).
MinIntervals == {64, 500}

SystemStates == {"idle", "collecting", "processing", "responding"}

\* The callers of process_chunk: one, submitting its chunks in sequence.
Callers == {1}

None == <<>>
Some(x) == <<x>>
IsNone(o) == o = <<>>
Val(o) == o[1]

VARIABLES
    \* StreamProcessor
    is_initialized, model, vad_iterator, buffered, frames_read, frame_counter,
    total_chunks_processed, speech_segments_count, single_frames_count,
    error_count, sem,
    \* one process_chunk call per caller
    pc, pending, results, outcome, returned, last_chunk, call_start,
    \* VADStateMachine
    state, current_collector, segment_counter,
    \* InterruptionManager
    system_state, last_interruption_ms, min_interval_ms,
    \* the frames handed to the state machine, the calls made, and the last
    \* teardown, kept until the session's next step
    fed, calls, teardown,
    \* the state machine driven on its own: the verdicts fed since it was
    \* constructed or reset with what each did, and the run to replay
    hist, phase, run1,
    \* concurrent calls told apart only by number: those inside chunk
    \* processing and those suspended at admission
    inside, suspended,
    \* the initialize() calls suspended at the load of the model, and the
    \* __aexit__ whose close() has run and which has not yet returned
    loading, exiting

procVars == <<is_initialized, model, vad_iterator, buffered, frames_read, frame_counter,
              total_chunks_processed, speech_segments_count, single_frames_count,
              error_count, sem>>
callVars == <<pc, pending, results, outcome, returned, last_chunk,
              call_start>>
smVars == <<state, current_collector, segment_counter>>
imVars == <<system_state, last_interruption_ms, min_interval_ms>>
ghostVars == <<fed, calls, teardown>>
machineVars == <<hist, phase, run1>>
admissionVars == <<inside, suspended>>
taskVars == <<loading, exiting>>
vars == <<procVars, callVars, smVars, imVars, ghostVars, machineVars,
          admissionVars, taskVars>>

\* What process_chunk may touch of the session: everything but the call's own
\* bookkeeping.
sessionVars == <<procVars, smVars, imVars>>

\* ------------------------------------------------------------- AudioFrame
AudioFrame(id, data, ts, v) ==
    [frame_id |-> id, audio_data |-> data, timestamp_ms |-> ts, vad_result |-> v]

\* ------------------------------------------------- SpeechCollector (4.2)
StartCollection(segment_id, frame) ==
    [segment_id |-> segment_id, frames |-> <<frame>>]

AddFrame(collector, frame) ==
    [collector EXCEPT !.frames = Append(@, frame)]

EndCollection(collector, frame) ==
    LET fs == Append(collector.frames, frame)
    IN  [segment_id |-> collector.segment_id,
         frames |-> fs,
         frame_count |-> Len(fs),
         start_timestamp_ms |-> fs[1].timestamp_ms,
         end_timestamp_ms |-> fs[Len(fs)].timestamp_ms,
         duration_ms |-> fs[Len(fs)].timestamp_ms - fs[1].timestamp_ms]

\* --------------------------------------------- InterruptionManager (4.3)
\* The arbiter's state as a record.
Arbiter(s, last, min) ==
    [system_state |-> s, last_interruption_ms |-> last, min_interval_ms |-> min]

DebounceElapsed(im, timestamp_ms) ==
    \/ IsNone(im.last_interruption_ms)
    \/ timestamp_ms - Val(im.last_interruption_ms) >= im.min_interval_ms

\* on_speech_start: the arbiter after the call, and the event it returns.
OnSpeechStart(im, timestamp_ms) ==
    IF im.system_state \in {"processing", "responding"}
       /\ DebounceElapsed(im, timestamp_ms)
    THEN [im |-> [im EXCEPT !.system_state = "collecting",
                            !.last_interruption_ms = Some(timestamp_ms)],
          event |-> Some([timestamp_ms |-> timestamp_ms,
                          system_state |-> im.system_state])]
    ELSE [im |-> [im EXCEPT !.system_state = "collecting"],
          event |-> None]

OnSpeechEnd(im, timestamp_ms) ==
    IF im.system_state = "collecting"
    THEN [im EXCEPT !.system_state = "idle"]
    ELSE im

SetState(im, s) == [im EXCEPT !.system_state = s]

GetState(im) == im.system_state

\* ---------------------------------------------------------- CascadeResult
CascadeResult(type, frame, segment, interruption) ==
    [result_type |-> type, frame |-> frame, segment |-> segment,
     interruption |-> interruption]

IsSpeechSegment(r) == r.result_type = "segment"
IsInterruption(r) == r.result_type = "interruption"

\* -------------------------------------------------------- VADStateMachine
\* The state machine's fields as a record.
Machine(st, collector, counter) ==
    [state |-> st, current_collector |-> collector, segment_counter |-> counter]

\* A handler's outcome: the state machine and the arbiter after it, and the
\* result it returns.
Handled(sm, im, result) == [sm |-> sm, im |-> im, result |-> result]

\* A no-speech frame reported as a single frame even while collecting.
HandleNoSpeechAlwaysFrame(sm, im, frame) ==
    Handled(sm, im, Some(CascadeResult("frame", Some(frame), None, None)))

\* A no-speech frame that is not kept while collecting.
HandleNoSpeechDropsWhileCollecting(sm, im, frame) ==
    IF sm.state = "collecting" /\ ~IsNone(sm.current_collector)
    THEN Handled(sm, im, None)
    ELSE Handled(sm, im, Some(CascadeResult("frame", Some(frame), None, None)))

\* _handle_no_speech: the frame joins the open segment, or is returned alone.
HandleNoSpeech(sm, im, frame) ==
    IF sm.state = "collecting" /\ ~IsNone(sm.current_collector)
    THEN Handled([sm EXCEPT !.current_collector =
                                Some(AddFrame(Val(sm.current_collector), frame))],
                 im, None)
    ELSE Handled(sm, im, Some(CascadeResult("frame", Some(frame), None, None)))

\* A Start handler without the gatekeeper: the arbiter's state is not read
\* again after on_speech_start.
AfterSpeechStartUngated(sm, started, frame) ==
    LET counter == sm.segment_counter + 1
    IN  IF sm.state = "collecting"
        THEN Handled(sm, started.im, None)
        ELSE Handled(Machine("collecting",
                             Some(StartCollection(counter, frame)),
                             counter),
                     started.im,
                     IF ~IsNone(started.event)
                     THEN Some(CascadeResult("interruption", None, None,
                                             started.event))
                     ELSE None)

\* A Start handler without the duplicate check: a Start while Collecting
\* opens another segment.
AfterSpeechStartReopens(sm, started, frame) ==
    LET counter == sm.segment_counter + 1
    IN  IF GetState(started.im) # "collecting"
        THEN Handled(sm, started.im, None)
        ELSE Handled(Machine("collecting",
                             Some(StartCollection(counter, frame)),
                             counter),
                     started.im,
                     IF ~IsNone(started.event)
                     THEN Some(CascadeResult("interruption", None, None,
                                             started.event))
                     ELSE None)

\* _handle_speech_start after on_speech_start has returned; started is the
\* arbiter as the call left it and the event it returned.  The gatekeeper
\* reads the arbiter's state again and ignores the verdict unless it is
\* Collecting; then a duplicate Start is ignored; else a segment is opened
\* and the event, if any, becomes an interruption result.
AfterSpeechStart(sm, started, frame) ==
    LET im2 == started.im
        interruption_event == started.event
        counter == sm.segment_counter + 1
    IN  IF GetState(im2) # "collecting"
        THEN Handled(sm, im2, None)
        ELSE IF sm.state = "collecting"
        THEN Handled(sm, im2, None)
        ELSE Handled(Machine("collecting",
                             Some(StartCollection(counter, frame)),
                             counter),
                     im2,
                     IF ~IsNone(interruption_event)
                     THEN Some(CascadeResult("interruption", None, None,
                                             interruption_event))
                     ELSE None)

\* The session always constructs the state machine with its interruption
\* manager, so the manager is consulted on every Start and End.
HandleSpeechStart(sm, im, frame) ==
    AfterSpeechStart(sm, OnSpeechStart(im, frame.timestamp_ms), frame)

\* An End handler that tells the arbiter only when a segment is open.
HandleSpeechEndNotifiesIfOpen(sm, im, frame) ==
    IF sm.state # "collecting" \/ IsNone(sm.current_collector)
    THEN Handled(sm, im, None)
    ELSE Handled(Machine("idle", None, sm.segment_counter),
                 OnSpeechEnd(im, frame.timestamp_ms),
                 Some(CascadeResult("segment", None,
                          Some(EndCollection(Val(sm.current_collector), frame)),
                          None)))

\* _handle_speech_end: the arbiter is told first; without an open segment the
\* verdict is ignored, else the segment is closed with this frame.
HandleSpeechEnd(sm, im, frame) ==
    LET im2 == OnSpeechEnd(im, frame.timestamp_ms)
    IN  IF sm.state # "collecting" \/ IsNone(sm.current_collector)
        THEN Handled(sm, im2, None)
        ELSE Handled(Machine("idle", None, sm.segment_counter),
                     im2,
                     Some(CascadeResult("segment", None,
                              Some(EndCollection(Val(sm.current_collector), frame)),
                              None)))

HandleVadResult(sm, im, frame) ==
    CASE frame.vad_result = "none" -> HandleNoSpeech(sm, im, frame)
      [] frame.vad_result = "start" -> HandleSpeechStart(sm, im, frame)
      [] frame.vad_result = "end" -> HandleSpeechEnd(sm, im, frame)
      [] OTHER -> HandleNoSpeech(sm, im, frame)

\* process_frame adds the processing time and the instance id to the result,
\* which the model does not carry.
ProcessFrame(sm, im, frame) == HandleVadResult(sm, im, frame)

\* A reset that keeps the segment counter.
ResetKeepsCounter(sm) == Machine("idle", None, sm.segment_counter)

\* reset(): the open collection is discarded, the arbiter is not touched.
Reset(sm) == Machine("idle", None, 0)

\* ---------------------------------------------------------- StreamProcessor
\* Validation that already rejects a chunk of exactly the maximum size.
ValidateAudioChunkMaxExclusive(data_size) ==
    IF data_size = 0 THEN "ok"
    ELSE IF data_size >= MAX_CHUNK_SIZE THEN "InputError"
    ELSE IF data_size % BYTES_PER_SAMPLE # 0 THEN "InputError"
    ELSE "ok"

\* _validate_audio_chunk: the error it raises, if any.
ValidateAudioChunk(data_size) ==
    IF data_size = 0 THEN "ok"
    ELSE IF data_size > MAX_CHUNK_SIZE THEN "InputError"
    ELSE IF data_size % BYTES_PER_SAMPLE # 0 THEN "InputError"
    ELSE "ok"

\* FrameAlignedBuffer.write (4.1): exceeding the capacity is a fault.
WriteFits(buf, n) == buf + n <= BUFFER_CAPACITY_BYTES

HasCompleteFrame(buf) == buf >= FRAME_BYTES

\* The frame numbered by its place in the buffer's stream, as if the counter
\* were advanced when the frame is read.
NewFrameNumberedAtRead(counter, frame_data, vad_result) ==
    AudioFrame(frame_data, frame_data, frame_data * FRAME_DURATION_MS,
               vad_result)

\* The frame built for the state machine after the oracle returned.
NewFrame(counter, frame_data, vad_result) ==
    AudioFrame(counter + 1, frame_data, (counter + 1) * FRAME_DURATION_MS,
               vad_result)

\* state_machine.process_frame(frame) on the session's state machine and
\* arbiter, and the assignment of what it leaves behind.
Step(frame) ==
    ProcessFrame(Machine(state, current_collector, segment_counter),
                 Arbiter(system_state, last_interruption_ms, min_interval_ms),
                 frame)

Commit(h) ==
    /\ state' = h.sm.state
    /\ current_collector' = h.sm.current_collector
    /\ segment_counter' = h.sm.segment_counter
    /\ system_state' = h.im.system_state
    /\ last_interruption_ms' = h.im.last_interruption_ms
    /\ min_interval_ms' = h.im.min_interval_ms

\* What a call found when it was made: the bytes left in the frame buffer by
\* earlier calls, and the number of frames handed to the state machine so far.
CallStart(r, n) == [buffered |-> r, fed |-> n]

\* What the model keeps of each process_chunk caller in cs, none of them
\* having called yet.
InitCallers(cs) ==
    /\ pc = [c \in cs |-> "idle"]
    /\ pending = [c \in cs |-> None]
    /\ results = [c \in cs |-> <<>>]
    /\ outcome = [c \in cs |-> "none"]
    /\ returned = [c \in cs |-> <<>>]
    /\ last_chunk = [c \in cs |-> 0]
    /\ call_start = [c \in cs |-> CallStart(0, 0)]
    /\ calls = [c \in cs |-> 0]

\* The fields of the session that its callers share, as __init__ leaves them,
\* but for the three fields that initialize() assigns.
InitShared ==
    /\ buffered = 0
    /\ frames_read = 0
    /\ frame_counter = 0
    /\ total_chunks_processed = 0
    /\ speech_segments_count = 0
    /\ single_frames_count = 0
    /\ error_count = 0
    /\ sem = SEMAPHORE_SLOTS
    /\ state = "idle"
    /\ current_collector = None
    /\ segment_counter = 0
    /\ system_state = "idle"
    /\ last_interruption_ms = None
    /\ min_interval_ms \in MinIntervals
    /\ fed = <<>>
    /\ teardown = None
    /\ hist = <<>>
    /\ run1 = <<>>
    /\ inside = 0
    /\ suspended = 0
    /\ loading = 0
    /\ exiting = "no"

\* The session as __init__ leaves it, but for the three fields that
\* initialize() assigns, with one sequential caller.
InitFields == InitShared /\ InitCallers(Callers)

InitSession ==
    /\ is_initialized = FALSE
    /\ model = None
    /\ vad_iterator = None
    /\ InitFields

Init == InitSession /\ phase = "session"

\* The fields of the session that initialize() and close() touch.
Session ==
    [is_initialized |-> is_initialized,
     model |-> model,
     vad_iterator |-> vad_iterator,
     buffered |-> buffered,
     sm |-> Machine(state, current_collector, segment_counter)]

\* What may go wrong in initialize(): loading the model, or constructing the
\* VADIterator around it.
InitializeFaults == {"none", "load", "iterator"}

\* An initialize() that marks the session initialized before it constructs
\* the VADIterator.
InitializedFlagFirst(s, fault) ==
    IF fault = "load" THEN [s EXCEPT !.is_initialized = TRUE]
    ELSE IF fault = "iterator"
    THEN [s EXCEPT !.is_initialized = TRUE, !.model = Some("model")]
    ELSE [s EXCEPT !.model = Some("model"),
                   !.vad_iterator = Some("VADIterator"),
                   !.is_initialized = TRUE]

\* initialize() on session s once the load of the model has returned or
\* raised: the model, the VADIterator and the flag are assigned in that
\* order; a failure raises an initialization error and leaves behind what was
\* assigned before it.
Initialized(s, fault) ==
    IF fault = "load" THEN s
    ELSE IF fault = "iterator" THEN [s EXCEPT !.model = Some("model")]
    ELSE [s EXCEPT !.model = Some("model"),
                   !.vad_iterator = Some("VADIterator"),
                   !.is_initialized = TRUE]

\* What may go wrong in close(): vad_iterator.reset_states(), whose exception
\* is logged and swallowed; frame_buffer.clear(); or the reset of the open
\* collector, the first thing state_machine.reset() does.  The last two reach
\* the outer handler.
TeardownFaults == {"none", "reset_states", "clear", "collector_reset"}

\* A fault needs its step to be taken: reset_states() is called only on a
\* VADIterator, the collector's reset only on an open collector.
CanFault(s, fault) ==
    /\ fault = "reset_states" => ~IsNone(s.vad_iterator)
    /\ fault = "collector_reset" => ~IsNone(s.sm.current_collector)

\* The teardown steps in the order close() takes them.
TeardownOrder == <<"adapter_reset", "buffer_clear", "state_machine_reset">>

\* A close() whose failure handler does not mark the session closed.
ClosedFlagOnSuccessOnly(s, fault) ==
    LET adapter == IF IsNone(s.vad_iterator) THEN <<>> ELSE <<"adapter_reset">>
    IN  IF fault = "clear"
        THEN [session |-> [s EXCEPT !.model = None, !.vad_iterator = None],
              steps |-> adapter \o <<"buffer_clear">>,
              result |-> "CleanupError"]
        ELSE IF fault = "collector_reset"
        THEN [session |-> [s EXCEPT !.model = None, !.vad_iterator = None,
                                    !.buffered = 0],
              steps |-> adapter \o <<"buffer_clear", "state_machine_reset">>,
              result |-> "CleanupError"]
        ELSE [session |-> [is_initialized |-> FALSE, model |-> None,
                           vad_iterator |-> None, buffered |-> 0,
                           sm |-> Reset(s.sm)],
              steps |-> adapter \o <<"buffer_clear", "state_machine_reset">>,
              result |-> "ok"]

\* A close() that drops the VADIterator after the buffer and the state
\* machine are cleared.
ClosedAdapterReleasedLast(s, fault) ==
    LET adapter == IF IsNone(s.vad_iterator) THEN <<>> ELSE <<"adapter_reset">>
    IN  IF fault = "clear"
        THEN [session |-> [s EXCEPT !.model = None, !.is_initialized = FALSE],
              steps |-> adapter \o <<"buffer_clear">>,
              result |-> "CleanupError"]
        ELSE IF fault = "collector_reset"
        THEN [session |-> [s EXCEPT !.model = None, !.buffered = 0,
                                    !.is_initialized = FALSE],
              steps |-> adapter \o <<"buffer_clear", "state_machine_reset">>,
              result |-> "CleanupError"]
        ELSE [session |-> [is_initialized |-> FALSE, model |-> None,
                           vad_iterator |-> None, buffered |-> 0,
                           sm |-> Reset(s.sm)],
              steps |-> adapter \o <<"buffer_clear", "state_machine_reset">>,
              result |-> "ok"]

\* close() on session s: the session after it, the teardown steps it entered
\* and how it ended.  The VADIterator's state is reset if there is one; the
\* model and the VADIterator are dropped; then the buffer is cleared and the
\* state machine reset.  Whether it completes or fails, the session is marked
\* uninitialized.
Closed(s, fault) ==
    LET adapter == IF IsNone(s.vad_iterator) THEN <<>> ELSE <<"adapter_reset">>
    IN  IF fault = "clear"
        THEN [session |-> [s EXCEPT !.model = None, !.vad_iterator = None,
                                    !.is_initialized = FALSE],
              steps |-> adapter \o <<"buffer_clear">>,
              result |-> "CleanupError"]
        ELSE IF fault = "collector_reset"
        THEN [session |-> [s EXCEPT !.model = None, !.vad_iterator = None,
                                    !.buffered = 0, !.is_initialized = FALSE],
              steps |-> adapter \o <<"buffer_clear", "state_machine_reset">>,
              result |-> "CleanupError"]
        ELSE [session |-> [is_initialized |-> FALSE, model |-> None,
                           vad_iterator |-> None, buffered |-> 0,
                           sm |-> Reset(s.sm)],
              steps |-> adapter \o <<"buffer_clear", "state_machine_reset">>,
              result |-> "ok"]

\* The assignment of the session's fields after initialize() or close().
CommitSession(s) ==
    /\ is_initialized' = s.is_initialized
    /\ model' = s.model
    /\ vad_iterator' = s.vad_iterator
    /\ buffered' = s.buffered
    /\ state' = s.sm.state
    /\ current_collector' = s.sm.current_collector
    /\ segment_counter' = s.sm.segment_counter

\* What the model remembers of a teardown: the session it found, the steps it
\* entered and how it ended for the caller.
Teardown(closed, result) ==
    [adapter |-> ~IsNone(vad_iterator),
     buffered |-> buffered,
     state |-> state,
     steps |-> closed.steps,
     result |-> result]

\* The initialize() calls that may be suspended at the load together.
Initializers == {1, 2}

\* initialize() is called: on a session marked initialized it returns at
\* once; else it starts the load of the model in a worker thread and is
\* suspended until the load returns.
Initialize ==
    /\ IF is_initialized
       THEN UNCHANGED loading
       ELSE /\ loading < Cardinality(Initializers)
            /\ loading' = loading + 1
    /\ teardown' = None
    /\ UNCHANGED <<procVars, callVars, smVars, imVars, fed, calls, machineVars,
                   admissionVars, exiting>>

\* The load of a suspended initialize() returns, or raises: the call goes on
\* to its end without testing the flag again.
InitializeLoaded(fault) ==
    /\ loading > 0
    /\ loading' = loading - 1
    /\ CommitSession(Initialized(Session, fault))
    /\ UNCHANGED <<frames_read, frame_counter, total_chunks_processed,
                   speech_segments_count, single_frames_count, error_count, sem>>
    /\ teardown' = None
    /\ UNCHANGED <<callVars, imVars, fed, calls, machineVars, admissionVars,
                   exiting>>

\* close(), at any time: it never suspends, and it asks nothing of the calls
\* in progress.
CloseSession(fault) ==
    /\ CanFault(Session, fault)
    /\ CommitSession(Closed(Session, fault).session)
    /\ UNCHANGED <<frames_read, frame_counter, total_chunks_processed,
                   speech_segments_count, single_frames_count, error_count, sem>>
    /\ UNCHANGED <<callVars, imVars, fed, calls, machineVars, admissionVars,
                   taskVars>>

Close(fault) ==
    /\ phase = "session"
    /\ CloseSession(fault)
    /\ UNCHANGED teardown

\* __aexit__: close() under asyncio.wait_for, which runs it as a task of its
\* own while __aexit__ is suspended.  close() has no suspension point, so it
\* has run to its end, or to its exception, before the timeout can be
\* delivered, and the TimeoutError handler is never entered.  This is the
\* step of that task.
ExitSession(fault) ==
    /\ exiting = "no"
    /\ CanFault(Session, fault)
    /\ CommitSession(Closed(Session, fault).session)
    /\ exiting' = Closed(Session, fault).result
    /\ UNCHANGED <<frames_read, frame_counter, total_chunks_processed,
                   speech_segments_count, single_frames_count, error_count, sem>>
    /\ UNCHANGED <<callVars, imVars, fed, calls, machineVars, admissionVars,
                   loading>>

AExit(fault) ==
    /\ phase = "session"
    /\ ExitSession(fault)
    /\ UNCHANGED teardown

\* __aexit__ is resumed with the outcome of close(): a cleanup error is
\* logged, the session marked uninitialized once more, and nothing is raised.
AExitReturn ==
    /\ exiting # "no"
    /\ exiting' = "no"
    /\ is_initialized' = IF exiting = "ok" THEN is_initialized ELSE FALSE
    /\ UNCHANGED <<model, vad_iterator, buffered, frames_read, frame_counter,
                   total_chunks_processed, speech_segments_count,
                   single_frames_count, error_count, sem>>
    /\ teardown' = None
    /\ UNCHANGED <<callVars, smVars, imVars, fed, calls, machineVars,
                   admissionVars, loading>>

\* A rejected chunk counted as a processing error.
RaiseCounted(c, n, err) ==
    /\ outcome' = [outcome EXCEPT ![c] = err]
    /\ returned' = [returned EXCEPT ![c] = <<>>]
    /\ error_count' = error_count + 1
    /\ UNCHANGED <<pc, pending, results>>
    /\ UNCHANGED <<is_initialized, model, vad_iterator, buffered, frames_read,
                   frame_counter, total_chunks_processed, speech_segments_count,
                   single_frames_count, sem>>
    /\ UNCHANGED <<smVars, imVars>>

\* An exception raised by process_chunk before admission: nothing of the
\* session is touched.
Raise(c, n, err) ==
    /\ outcome' = [outcome EXCEPT ![c] = err]
    /\ returned' = [returned EXCEPT ![c] = <<>>]
    /\ UNCHANGED <<pc, pending, results>>
    /\ UNCHANGED sessionVars

\* A frame loop that stops when exactly one frame is left in the buffer.
ContinueLeavesLastFrame(c, buf, res, s) ==
    IF buf > FRAME_BYTES
    THEN /\ buffered' = buf - FRAME_BYTES
         /\ frames_read' = frames_read + 1
         /\ pending' = [pending EXCEPT ![c] = Some(frames_read + 1)]
         /\ pc' = [pc EXCEPT ![c] = "oracle"]
         /\ results' = [results EXCEPT ![c] = res]
         /\ outcome' = [outcome EXCEPT ![c] = "pending"]
         /\ returned' = [returned EXCEPT ![c] = <<>>]
         /\ sem' = s
         /\ UNCHANGED total_chunks_processed
    ELSE /\ buffered' = buf
         /\ total_chunks_processed' = total_chunks_processed + 1
         /\ sem' = s + 1
         /\ pc' = [pc EXCEPT ![c] = "idle"]
         /\ pending' = [pending EXCEPT ![c] = None]
         /\ results' = [results EXCEPT ![c] = <<>>]
         /\ outcome' = [outcome EXCEPT ![c] = "ok"]
         /\ returned' = [returned EXCEPT ![c] = res]
         /\ UNCHANGED frames_read

\* The head of the frame loop of _process_chunk_internal with buf bytes in the
\* buffer, res the results so far and s the semaphore's value while the call
\* holds its slot: read the next frame and suspend at the oracle call, or
\* leave the loop, count the chunk, release the slot and return.  No other
\* call runs between has_complete_frame() and read_frame(), so the frame read
\* is never empty.  Processing times are not modelled.
Continue(c, buf, res, s) ==
    IF HasCompleteFrame(buf)
    THEN /\ buffered' = buf - FRAME_BYTES
         /\ frames_read' = frames_read + 1
         /\ pending' = [pending EXCEPT ![c] = Some(frames_read + 1)]
         /\ pc' = [pc EXCEPT ![c] = "oracle"]
         /\ results' = [results EXCEPT ![c] = res]
         /\ outcome' = [outcome EXCEPT ![c] = "pending"]
         /\ returned' = [returned EXCEPT ![c] = <<>>]
         /\ sem' = s
         /\ UNCHANGED total_chunks_processed
    ELSE /\ buffered' = buf
         /\ total_chunks_processed' = total_chunks_processed + 1
         /\ sem' = s + 1
         /\ pc' = [pc EXCEPT ![c] = "idle"]
         /\ pending' = [pending EXCEPT ![c] = None]
         /\ results' = [results EXCEPT ![c] = <<>>]
         /\ outcome' = [outcome EXCEPT ![c] = "ok"]
         /\ returned' = [returned EXCEPT ![c] = res]
         /\ UNCHANGED frames_read

\* A failure that hands the caller the results of the chunk's earlier frames.
FailKeepsResults(c, s) ==
    /\ error_count' = error_count + 1
    /\ sem' = s + 1
    /\ pc' = [pc EXCEPT ![c] = "idle"]
    /\ pending' = [pending EXCEPT ![c] = None]
    /\ results' = [results EXCEPT ![c] = <<>>]
    /\ outcome' = [outcome EXCEPT ![c] = "ProcessingError"]
    /\ returned' = [returned EXCEPT ![c] = results[c]]

\* The except branch of _process_chunk_internal: the error is counted, the
\* slot released, and nothing is returned.
Fail(c, s) ==
    /\ error_count' = error_count + 1
    /\ sem' = s + 1
    /\ pc' = [pc EXCEPT ![c] = "idle"]
    /\ pending' = [pending EXCEPT ![c] = None]
    /\ results' = [results EXCEPT ![c] = <<>>]
    /\ outcome' = [outcome EXCEPT ![c] = "ProcessingError"]
    /\ returned' = [returned EXCEPT ![c] = <<>>]

\* process_chunk(audio_data) with len(audio_data) = n, up to its first
\* suspension at the oracle call or to its return.
ProcessChunk(c, n) ==
    /\ phase \in {"session", "lifecycle", "stats", "interleaved"}
    /\ pc[c] = "idle"
    /\ calls[c] < MaxCalls
    /\ sem > 0
    /\ WriteFits(buffered, n) =>
           frames_read + ((buffered + n) \div FRAME_BYTES) <= MaxRead
    /\ calls' = [calls EXCEPT ![c] = @ + 1]
    /\ last_chunk' = [last_chunk EXCEPT ![c] = n]
    /\ call_start' = [call_start EXCEPT ![c] = CallStart(buffered, Len(fed))]
    /\ teardown' = None
    /\ UNCHANGED <<fed, machineVars, taskVars, admissionVars>>
    /\ IF IsNone(vad_iterator)
       THEN Raise(c, n, "StateError")
       ELSE IF ValidateAudioChunk(n) # "ok"
       THEN Raise(c, n, ValidateAudioChunk(n))
       ELSE /\ UNCHANGED <<is_initialized, model, vad_iterator, frame_counter,
                           speech_segments_count, single_frames_count>>
            /\ UNCHANGED <<smVars, imVars>>
            /\ IF WriteFits(buffered, n)
               THEN /\ Continue(c, buffered + n, <<>>, sem - 1)
                    /\ UNCHANGED error_count
               ELSE /\ Fail(c, sem - 1)
                    /\ UNCHANGED <<buffered, frames_read, total_chunks_processed>>

\* The oracle call of caller c returns verdict v: the frame is numbered,
\* handed to the state machine, its result counted and collected, and the
\* loop goes on.
OracleReturn(c, v) ==
    /\ pc[c] = "oracle"
    /\ LET frame == NewFrame(frame_counter, Val(pending[c]), v)
           h == Step(frame)
       IN  /\ frame_counter' = frame.frame_id
           /\ Commit(h)
           /\ speech_segments_count' =
                  IF ~IsNone(h.result) /\ IsSpeechSegment(Val(h.result))
                  THEN speech_segments_count + 1 ELSE speech_segments_count
           /\ single_frames_count' =
                  IF ~IsNone(h.result) /\ ~IsSpeechSegment(Val(h.result))
                  THEN single_frames_count + 1 ELSE single_frames_count
           /\ fed' = Append(fed, [frame_id |-> frame.frame_id,
                                  timestamp_ms |-> frame.timestamp_ms,
                                  audio_data |-> frame.audio_data])
           /\ Continue(c, buffered, results[c] \o h.result, sem)
    /\ UNCHANGED <<is_initialized, model, vad_iterator, error_count>>
    /\ teardown' = None
    /\ UNCHANGED <<last_chunk, call_start, calls, machineVars, taskVars,
                   admissionVars>>

\* The oracle call of caller c raises: the frame it was given is gone.
OracleFail(c) ==
    /\ pc[c] = "oracle"
    /\ Fail(c, sem)
    /\ UNCHANGED <<is_initialized, model, vad_iterator, buffered, frames_read,
                   frame_counter, total_chunks_processed, speech_segments_count,
                   single_frames_count>>
    /\ teardown' = None
    /\ UNCHANGED <<last_chunk, call_start, smVars, imVars, fed, calls, machineVars, taskVars,
                   admissionVars>>

\* The task of caller c is cancelled while the call is suspended at its
\* oracle call: CancelledError is not an Exception, so the except branch is
\* passed by and no error is counted; the slot is released, and the frame
\* that was read is gone with the results of the chunk's earlier frames.
OracleCancel(c) ==
    /\ pc[c] = "oracle"
    /\ sem' = sem + 1
    /\ pc' = [pc EXCEPT ![c] = "idle"]
    /\ pending' = [pending EXCEPT ![c] = None]
    /\ results' = [results EXCEPT ![c] = <<>>]
    /\ outcome' = [outcome EXCEPT ![c] = "CancelledError"]
    /\ returned' = [returned EXCEPT ![c] = <<>>]
    /\ UNCHANGED <<is_initialized, model, vad_iterator, buffered, frames_read,
                   frame_counter, total_chunks_processed, speech_segments_count,
                   single_frames_count, error_count>>
    /\ teardown' = None
    /\ UNCHANGED <<last_chunk, call_start, smVars, imVars, fed, calls,
                   machineVars, admissionVars, taskVars>>

\* reset_stats(): the counters of get_stats() are cleared; the frame counter
\* is not one of them.
ResetStats ==
    /\ phase \in {"session", "lifecycle", "stats"}
    /\ total_chunks_processed' = 0
    /\ speech_segments_count' = 0
    /\ single_frames_count' = 0
    /\ error_count' = 0
    /\ UNCHANGED <<is_initialized, model, vad_iterator, buffered, frames_read,
                   frame_counter, sem>>
    /\ teardown' = None
    /\ UNCHANGED <<callVars, smVars, imVars, fed, calls, machineVars, taskVars,
                   admissionVars>>

\* set_system_state(s): the dialogue system's override.
SetSystemState(s) ==
    /\ s # system_state
    /\ LET im == SetState(Arbiter(system_state, last_interruption_ms,
                                   min_interval_ms), s)
       IN  /\ system_state' = im.system_state
           /\ last_interruption_ms' = im.last_interruption_ms
           /\ min_interval_ms' = im.min_interval_ms
    /\ teardown' = None
    /\ UNCHANGED <<procVars, callVars, smVars, fed, calls, machineVars, taskVars, admissionVars>>

\* state_machine.reset() called on its own, at any time.
ResetStateMachine ==
    /\ LET sm == Reset(Machine(state, current_collector, segment_counter))
       IN  /\ state' = sm.state
           /\ current_collector' = sm.current_collector
           /\ segment_counter' = sm.segment_counter
    /\ hist' = <<>>
    /\ teardown' = None
    /\ UNCHANGED <<procVars, callVars, imVars, fed, calls, phase, run1, taskVars, admissionVars>>

Next ==
    \/ Initialize
    \/ \E fault \in InitializeFaults : InitializeLoaded(fault)
    \/ \E fault \in TeardownFaults : Close(fault)
    \/ \E fault \in TeardownFaults : AExit(fault)
    \/ AExitReturn
    \/ \E c \in Callers, n \in ChunkSizes : ProcessChunk(c, n)
    \/ \E c \in Callers, v \in Verdicts : OracleReturn(c, v)
    \/ \E c \in Callers : OracleFail(c)
    \/ \E c \in Callers : OracleCancel(c)
    \/ \E s \in SystemStates : SetSystemState(s)
    \/ ResetStateMachine
    \/ ResetStats

Spec == Init /\ [][Next]_vars

\* The session without the dialogue system's overrides.
NextNoOverride ==
    \/ Initialize
    \/ \E fault \in InitializeFaults : InitializeLoaded(fault)
    \/ \E fault \in TeardownFaults : Close(fault)
    \/ \E fault \in TeardownFaults : AExit(fault)
    \/ AExitReturn
    \/ \E c \in Callers, n \in ChunkSizes : ProcessChunk(c, n)
    \/ \E c \in Callers, v \in Verdicts : OracleReturn(c, v)
    \/ \E c \in Callers : OracleFail(c)
    \/ \E c \in Callers : OracleCancel(c)
    \/ ResetStateMachine
    \/ ResetStats

SpecNoOverride == Init /\ [][NextNoOverride]_vars

\* ------------------------------------------------ the session's lifecycle
\* The session with every teardown remembered until its next step: the steps
\* it entered and how it ended for the caller.
CloseLogged(fault) ==
    /\ phase = "lifecycle"
    /\ CloseSession(fault)
    /\ teardown' = Some(Teardown(Closed(Session, fault),
                                 Closed(Session, fault).result))

AExitLogged(fault) ==
    /\ phase = "lifecycle"
    /\ ExitSession(fault)
    /\ teardown' = Some(Teardown(Closed(Session, fault),
                        IF Closed(Session, fault).result = "ok"
                        THEN "exited" ELSE "suppressed"))

\* Chunks of a frame and a half.
LifecycleChunkSizes == {1536}

\* The session is taken with one debounce window.
InitLifecycle ==
    /\ InitSession
    /\ phase = "lifecycle"
    /\ min_interval_ms = 500

NextLifecycle ==
    \/ Initialize
    \/ \E fault \in InitializeFaults : InitializeLoaded(fault)
    \/ \E fault \in TeardownFaults : CloseLogged(fault)
    \/ \E fault \in TeardownFaults : AExitLogged(fault)
    \/ AExitReturn
    \/ \E c \in Callers, n \in LifecycleChunkSizes :
           calls[c] < MaxLifecycleCalls /\ ProcessChunk(c, n)
    \/ \E c \in Callers, v \in Verdicts : OracleReturn(c, v)
    \/ \E c \in Callers : OracleFail(c)
    \/ \E c \in Callers : OracleCancel(c)
    \/ \E s \in SystemStates : SetSystemState(s)
    \/ ResetStateMachine
    \/ ResetStats

SpecLifecycle == InitLifecycle /\ [][NextLifecycle]_vars

\* ----------------------------------------------------------- statistics
\* Chunks of half a frame and of two frames.
StatsChunkSizes == {512, 2048}

InitStats == InitSession /\ phase = "stats"

\* The session with its statistics reset at any time, fed chunks of half a
\* frame and of two frames.
NextStats ==
    \/ Initialize
    \/ InitializeLoaded("none")
    \/ \E c \in Callers, n \in StatsChunkSizes : ProcessChunk(c, n)
    \/ \E c \in Callers, v \in Verdicts : OracleReturn(c, v)
    \/ \E c \in Callers : OracleFail(c)
    \/ \E c \in Callers : OracleCancel(c)
    \/ \E s \in SystemStates : SetSystemState(s)
    \/ ResetStats

SpecStats == InitStats /\ [][NextStats]_vars

\* ------------------------------------------------------------ admission
\* More calls of process_chunk than the semaphore has slots, issued at once on
\* an initialized session.  Each submits one frame of silence or noise, so
\* each call that was admitted has written its chunk, read its frame and is
\* suspended at its oracle call; the calls are told apart only by number, and
\* the oracle answers the oldest first.

\* Calls admitted or waiting in one behaviour.
AdmissionCalls == SEMAPHORE_SLOTS + 2

\* The body of "async with self._processing_semaphore" up to the oracle call,
\* the slot taken: the chunk is written to the empty buffer and read back as
\* one frame.
EnterChunk ==
    /\ WriteFits(buffered, FRAME_BYTES)
    /\ HasCompleteFrame(buffered + FRAME_BYTES)
    /\ sem' = sem - 1
    /\ inside' = inside + 1
    /\ buffered' = buffered + FRAME_BYTES - FRAME_BYTES
    /\ frames_read' = frames_read + 1
    /\ UNCHANGED <<is_initialized, model, vad_iterator, frame_counter,
                   total_chunks_processed, speech_segments_count,
                   single_frames_count, error_count>>
    /\ UNCHANGED <<callVars, smVars, imVars, ghostVars, machineVars, taskVars>>

\* A call that enters chunk processing whether or not a slot is free.
ArriveUnguarded ==
    /\ phase = "admission"
    /\ frames_read + suspended < AdmissionCalls
    /\ ~IsNone(vad_iterator)
    /\ ValidateAudioChunk(FRAME_BYTES) = "ok"
    /\ EnterChunk
    /\ UNCHANGED suspended

\* process_chunk is called: past the adapter check and the validation the
\* call acquires the semaphore, at once if a slot is free and no call waits,
\* and is suspended otherwise.
Arrive ==
    /\ phase = "admission"
    /\ frames_read + suspended < AdmissionCalls
    /\ ~IsNone(vad_iterator)
    /\ ValidateAudioChunk(FRAME_BYTES) = "ok"
    /\ IF sem > 0 /\ suspended = 0
       THEN /\ EnterChunk
            /\ UNCHANGED suspended
       ELSE /\ suspended' = suspended + 1
            /\ UNCHANGED <<procVars, inside>>
            /\ UNCHANGED <<callVars, smVars, imVars, ghostVars, machineVars, taskVars>>

\* A released slot goes to the call that waited longest.
Admit ==
    /\ phase = "admission"
    /\ suspended > 0
    /\ sem > 0
    /\ suspended' = suspended - 1
    /\ EnterChunk

\* The oracle finds no speech boundary in the frame of the oldest call inside:
\* the frame is numbered and handed to the state machine, no frame is left in
\* the buffer, the chunk is counted and the slot released.
OracleAnswers ==
    /\ phase = "admission"
    /\ inside > 0
    /\ ~HasCompleteFrame(buffered)
    /\ LET frame == NewFrame(frame_counter, frames_read - inside + 1, "none")
           h == Step(frame)
       IN  /\ frame_counter' = frame.frame_id
           /\ Commit(h)
           /\ speech_segments_count' =
                  IF ~IsNone(h.result) /\ IsSpeechSegment(Val(h.result))
                  THEN speech_segments_count + 1 ELSE speech_segments_count
           /\ single_frames_count' =
                  IF ~IsNone(h.result) /\ ~IsSpeechSegment(Val(h.result))
                  THEN single_frames_count + 1 ELSE single_frames_count
    /\ total_chunks_processed' = total_chunks_processed + 1
    /\ sem' = sem + 1
    /\ inside' = inside - 1
    /\ UNCHANGED <<is_initialized, model, vad_iterator, buffered, frames_read,
                   error_count, suspended>>
    /\ UNCHANGED <<callVars, ghostVars, machineVars, taskVars>>

\* A failing oracle call whose slot is not given back.
OracleRaisesKeepsSlot ==
    /\ phase = "admission"
    /\ inside > 0
    /\ error_count' = error_count + 1
    /\ inside' = inside - 1
    /\ UNCHANGED <<is_initialized, model, vad_iterator, buffered, frames_read,
                   frame_counter, total_chunks_processed, speech_segments_count,
                   single_frames_count, sem, suspended>>
    /\ UNCHANGED <<callVars, smVars, imVars, ghostVars, machineVars, taskVars>>

\* The oracle call of the oldest call inside raises.
OracleRaises ==
    /\ phase = "admission"
    /\ inside > 0
    /\ error_count' = error_count + 1
    /\ sem' = sem + 1
    /\ inside' = inside - 1
    /\ UNCHANGED <<is_initialized, model, vad_iterator, buffered, frames_read,
                   frame_counter, total_chunks_processed, speech_segments_count,
                   single_frames_count, suspended>>
    /\ UNCHANGED <<callVars, smVars, imVars, ghostVars, machineVars, taskVars>>

\* The task of the oldest call inside is cancelled at its oracle call: the
\* slot is released and nothing is counted.
OracleCancelled ==
    /\ phase = "admission"
    /\ inside > 0
    /\ sem' = sem + 1
    /\ inside' = inside - 1
    /\ UNCHANGED <<is_initialized, model, vad_iterator, buffered, frames_read,
                   frame_counter, total_chunks_processed, speech_segments_count,
                   single_frames_count, error_count, suspended>>
    /\ UNCHANGED <<callVars, smVars, imVars, ghostVars, machineVars, taskVars>>

\* The task of a call that waits for a slot is cancelled: the call leaves the
\* wait with CancelledError, having read nothing.  A slot that a release had
\* already handed to it stays with the semaphore for the next waiter.
WaiterCancelled ==
    /\ phase = "admission"
    /\ suspended > 0
    /\ suspended' = suspended - 1
    /\ UNCHANGED <<procVars, inside>>
    /\ UNCHANGED <<callVars, smVars, imVars, ghostVars, machineVars, taskVars>>

\* The session after initialize().
InitAdmission ==
    /\ is_initialized = TRUE
    /\ model = Some("model")
    /\ vad_iterator = Some("VADIterator")
    /\ InitFields
    /\ phase = "admission"

NextAdmission ==
    \/ Arrive
    \/ Admit
    \/ OracleAnswers
    \/ OracleRaises
    \/ OracleCancelled
    \/ WaiterCancelled

SpecAdmission == InitAdmission /\ [][NextAdmission]_vars

\* Admission when every oracle call in flight returns or raises, none being
\* cancelled, under the scheduling of the event loop: a waiter woken by a
\* release is run (the semaphore sets its future, and the loop runs every
\* ready callback).
NextAdmissionAnswered ==
    \/ Arrive
    \/ Admit
    \/ OracleAnswers
    \/ OracleRaises

SpecAdmissionFair ==
    /\ InitAdmission
    /\ [][NextAdmissionAnswered]_vars
    /\ WF_vars(Admit)
    /\ WF_vars(OracleAnswers \/ OracleRaises)

\* ------------------------------------------------- calls that interleave
\* Two callers of one initialized session: a call made while the other is
\* suspended at its oracle call writes to the same frame buffer and reads
\* from it, and the oracle calls in flight (asyncio.to_thread, one thread
\* each) return in either order.
InterleavedCallers == {1, 2}

InitInterleaved ==
    /\ is_initialized = TRUE
    /\ model = Some("model")
    /\ vad_iterator = Some("VADIterator")
    /\ InitShared
    /\ InitCallers(InterleavedCallers)
    /\ phase = "interleaved"

NextInterleaved ==
    \/ \E c \in InterleavedCallers, n \in StatsChunkSizes : ProcessChunk(c, n)
    \/ \E c \in InterleavedCallers, v \in Verdicts : OracleReturn(c, v)
    \/ \E c \in InterleavedCallers : OracleFail(c)
    \/ \E c \in InterleavedCallers : OracleCancel(c)

SpecInterleaved == InitInterleaved /\ [][NextInterleaved]_vars

\* ------------------------------------------- the state machine on its own
\* What the history keeps of a frame handed to the state machine: the frame,
\* the two states before and after, whether the arbiter's debounce window had
\* elapsed, and the result.
HistEntry(frame, h) ==
    [frame |-> frame,
     pre_state |-> state,
     pre_system_state |-> system_state,
     debounce_ok |-> DebounceElapsed(
         Arbiter(system_state, last_interruption_ms, min_interval_ms),
         frame.timestamp_ms),
     result |-> h.result,
     post_state |-> h.sm.state,
     post_system_state |-> h.im.system_state]

\* The next frame, numbered as _process_chunk_internal numbers it, is handed
\* to process_frame with verdict v.
FeedFrame(v) ==
    /\ LET frame == NewFrame(frame_counter, frame_counter + 1, v)
           h == Step(frame)
       IN  /\ frame_counter' = frame.frame_id
           /\ Commit(h)
           /\ hist' = Append(hist, HistEntry(frame, h))
    /\ UNCHANGED <<is_initialized, model, vad_iterator, buffered, frames_read,
                   total_chunks_processed, speech_segments_count,
                   single_frames_count, error_count, sem>>
    /\ UNCHANGED <<callVars, ghostVars, phase, run1, taskVars, admissionVars>>

Feed(v) ==
    /\ phase \in {"machine", "first", "gatekeeper"}
    /\ frame_counter < MaxFrames
    /\ FeedFrame(v)

InitMachine == InitSession /\ phase = "machine"

NextMachine ==
    \/ \E v \in Verdicts : Feed(v)
    \/ \E s \in SystemStates : SetSystemState(s)
    \/ ResetStateMachine

SpecMachine == InitMachine /\ [][NextMachine]_vars

\* The state machine with an arbiter that may refuse to enter Collecting
\* ("interval too short, or a restriction of policy", state_machine.py:149):
\* on_speech_start decides on the event as the arbiter of 4.3 does, and
\* leaves the SystemState at s.
RefusedStart(s) ==
    /\ phase = "gatekeeper"
    /\ frame_counter < MaxFrames
    /\ s # "collecting"
    /\ LET frame == NewFrame(frame_counter, frame_counter + 1, "start")
           im == Arbiter(system_state, last_interruption_ms, min_interval_ms)
           accepted == OnSpeechStart(im, frame.timestamp_ms)
           started == [im |-> SetState(accepted.im, s),
                       event |-> accepted.event]
           h == AfterSpeechStart(
                    Machine(state, current_collector, segment_counter),
                    started, frame)
       IN  /\ frame_counter' = frame.frame_id
           /\ Commit(h)
           /\ hist' = Append(hist, HistEntry(frame, h))
    /\ UNCHANGED <<is_initialized, model, vad_iterator, buffered, frames_read,
                   total_chunks_processed, speech_segments_count,
                   single_frames_count, error_count, sem>>
    /\ UNCHANGED <<callVars, ghostVars, phase, run1, taskVars, admissionVars>>

InitGatekeeper == InitSession /\ phase = "gatekeeper"

NextGatekeeper ==
    \/ \E v \in Verdicts : Feed(v)
    \/ \E s \in SystemStates : RefusedStart(s)

SpecGatekeeper == InitGatekeeper /\ [][NextGatekeeper]_vars

\* Replay: a first run of verdicts from whatever conversational state the
\* dialogue system has set, then reset(), then the same frames again.
PresetSystemState(s) ==
    /\ phase = "first"
    /\ hist = <<>>
    /\ SetSystemState(s)

StartReplay ==
    /\ phase = "first"
    /\ hist # <<>>
    /\ LET sm == Reset(Machine(state, current_collector, segment_counter))
       IN  /\ state' = sm.state
           /\ current_collector' = sm.current_collector
           /\ segment_counter' = sm.segment_counter
    /\ run1' = hist
    /\ hist' = <<>>
    /\ phase' = "replay"
    /\ UNCHANGED <<is_initialized, model, vad_iterator, buffered, frames_read,
                   frame_counter, total_chunks_processed, speech_segments_count,
                   single_frames_count, error_count, sem>>
    /\ UNCHANGED <<callVars, imVars, ghostVars, admissionVars, taskVars>>

ReplayFeed ==
    /\ phase = "replay"
    /\ Len(hist) < Len(run1)
    /\ FeedFrame(run1[Len(hist) + 1].frame.vad_result)

InitReplay == InitSession /\ phase = "first"

NextReplay ==
    \/ \E s \in SystemStates : PresetSystemState(s)
    \/ \E v \in Verdicts : Feed(v)
    \/ StartReplay
    \/ ReplayFeed

SpecReplay == InitReplay /\ [][NextReplay]_vars

\* ------------------------------------------------------------ properties
\* Helpers over the history of the frames fed to the state machine.
Verdict(i) == hist[i].frame.vad_result

IsResult(e, type) == ~IsNone(e.result) /\ Val(e.result).result_type = type

\* The segments emitted so far, and with them the open one.
EmittedSegments ==
    {Val(Val(hist[i].result).segment).frames :
        i \in {j \in 1..Len(hist) : IsResult(hist[j], "segment")}}

OpenSegments ==
    IF IsNone(current_collector) THEN {} ELSE {Val(current_collector).frames}

\* In how many places frame i of the history is accounted for: as the frame of
\* a frame-result, or as a member of a segment.
Accounted(i) ==
    LET f == hist[i].frame
        memberships ==
            {<<k, fs>> \in (1..MaxFrames + 1) \X (EmittedSegments \cup OpenSegments) :
                k <= Len(fs) /\ fs[k] = f}
    IN  (IF IsResult(hist[i], "frame") /\ Val(hist[i].result).frame = Some(f)
         THEN 1 ELSE 0) + Cardinality(memberships)

\* C1: in every reachable state of a session the state machine is Collecting
\* if and only if the arbiter's SystemState is Collecting.
C1_NoZombieState ==
    (state = "collecting") <=> (system_state = "collecting")

\* C2: every frame fed to the state machine since it was constructed or reset
\* is accounted for exactly once, as the frame of a frame-result or as a member
\* of a segment, open or emitted.
C2_EveryFrameAccounted ==
    \A i \in 1..Len(hist) : Accounted(i) = 1

\* C3: the frames of every emitted segment have contiguous ids.
C3_SegmentsContiguous ==
    \A fs \in EmittedSegments :
        \A j \in 2..Len(fs) : fs[j].frame_id = fs[j - 1].frame_id + 1

\* A Start verdict that arrives while the SystemState is Processing or
\* Responding with the debounce interval elapsed.
Interrupting(e) ==
    /\ e.frame.vad_result = "start"
    /\ e.pre_system_state \in {"processing", "responding"}
    /\ e.debounce_ok

\* C4: an interruption result is emitted exactly for the Start verdicts that
\* arrive while the SystemState is Processing or Responding with the debounce
\* interval elapsed; it carries the prior SystemState, and the SystemState is
\* Collecting afterwards.
C4_InterruptionExactlyWhen ==
    \A i \in 1..Len(hist) :
        LET e == hist[i]
        IN  /\ Interrupting(e) <=> IsResult(e, "interruption")
            /\ Interrupting(e) => e.post_system_state = "collecting"
            /\ IsResult(e, "interruption") =>
                   Val(Val(e.result).interruption) =
                       [timestamp_ms |-> e.frame.timestamp_ms,
                        system_state |-> e.pre_system_state]

\* C5: two Start verdicts less than min_interval_ms apart, both arriving while
\* the SystemState is Responding, the first outside the debounce window of
\* any earlier interruption, produce exactly one interruption result.
C5_DebouncedPairOneInterruption ==
    \A i \in 1..Len(hist) : \A j \in 1..Len(hist) :
        ( /\ i < j
          /\ Verdict(i) = "start" /\ hist[i].pre_system_state = "responding"
          /\ Verdict(j) = "start" /\ hist[j].pre_system_state = "responding"
          /\ hist[i].debounce_ok
          /\ hist[j].frame.timestamp_ms - hist[i].frame.timestamp_ms
                 < min_interval_ms )
        => Cardinality({k \in {i, j} : IsResult(hist[k], "interruption")}) = 1

\* C6: the frames handed to the state machine carry the ids 1, 2, 3, ... in
\* order, whatever calls failed in between, and each frame's timestamp is its
\* id times the frame duration.
C6_FrameIdsSequential ==
    \A i \in 1..Len(fed) :
        /\ fed[i].frame_id = i
        /\ fed[i].timestamp_ms = i * FRAME_DURATION_MS

\* A frame was handed to the state machine after an earlier frame was lost to
\* a failed oracle call, and another after it.
C6_Witness ==
    /\ error_count >= 1
    /\ \E i \in 1..Len(fed) :
           /\ fed[i].audio_data > fed[i].frame_id
           /\ i < Len(fed)

\* Frames i .. i+n+1 of the history are a Start from Idle/Idle, n no-speech
\* frames and an End.
RoundTrip(i, n) ==
    /\ i + n + 1 <= Len(hist)
    /\ Verdict(i) = "start"
    /\ hist[i].pre_state = "idle"
    /\ hist[i].pre_system_state = "idle"
    /\ \A j \in (i + 1)..(i + n) : Verdict(j) = "none"
    /\ Verdict(i + n + 1) = "end"

\* C7: Start from Idle/Idle, n no-speech frames, End: the only result is the
\* End frame's, a segment of the n+2 frames, starting at the Start frame's
\* timestamp and ending at the End frame's.
C7_SegmentRoundTrip ==
    \A i \in 1..Len(hist) : \A n \in 0..Len(hist) :
        RoundTrip(i, n) =>
            /\ \A j \in i..(i + n) : IsNone(hist[j].result)
            /\ IsResult(hist[i + n + 1], "segment")
            /\ LET seg == Val(Val(hist[i + n + 1].result).segment)
               IN  /\ seg.frame_count = n + 2
                   /\ seg.frames = [k \in 1..(n + 2) |-> hist[i + k - 1].frame]
                   /\ seg.start_timestamp_ms = hist[i].frame.timestamp_ms
                   /\ seg.end_timestamp_ms = hist[i + n + 1].frame.timestamp_ms

\* The design document's case: Start, two no-speech frames, End, not at the
\* first frame, and the segment of four frames is out.
C7_Witness ==
    \E i \in 1..Len(hist) :
        /\ RoundTrip(i, 2)
        /\ IsResult(hist[i + 3], "segment")
        /\ Val(Val(hist[i + 3].result).segment).frame_count = 4

\* What a result is apart from the numbering of its frames: its type, its
\* frame or its segment's id and members by their place in the run (the
\* session goes on numbering frames after a reset, so the frames of a replay
\* carry later ids), and the SystemState an interruption was raised in.
ResultShape(r, base) ==
    IF IsNone(r) THEN <<>>
    ELSE LET v == Val(r)
         IN  <<v.result_type,
               IF IsNone(v.frame) THEN 0 ELSE Val(v.frame).frame_id - base,
               IF IsNone(v.segment) THEN <<>>
               ELSE <<Val(v.segment).segment_id,
                      [k \in 1..Len(Val(v.segment).frames) |->
                          Val(v.segment).frames[k].frame_id - base]>>,
               IF IsNone(v.interruption) THEN <<>>
               ELSE <<Val(v.interruption).system_state>>>>

\* C8: after reset(), the verdicts of the first run fed again give the results
\* of the first run, one for one: the same types in the same order, the same
\* segment ids, and the corresponding frames as members.
C8_ReplayReproduces ==
    phase = "replay" =>
        \A i \in 1..Len(hist) :
            ResultShape(hist[i].result, Len(run1))
                = ResultShape(run1[i].result, 0)

\* C9: a process_chunk call rejected with an InputError leaves the session as
\* it was: buffer, counters, state machine, arbiter and admission slots.
C9_InputErrorMutatesNothing ==
    [][\A c \in Callers :
          (calls'[c] = calls[c] + 1 /\ outcome'[c] = "InputError")
              => UNCHANGED sessionVars]_vars

\* An odd-length chunk was rejected by a session that has numbered frames,
\* counted a chunk and holds an open segment.
C9_Witness ==
    \E c \in Callers :
        /\ outcome[c] = "InputError"
        /\ last_chunk[c] % 2 = 1
        /\ frame_counter > 0
        /\ total_chunks_processed > 0
        /\ state = "collecting"

\* C10: a process_chunk call with a zero-length chunk on an initialized
\* session returns no results and raises no error.
C10_ZeroLengthChunkIsNoOp ==
    \A c \in Callers :
        (last_chunk[c] = 0 /\ outcome[c] \in {"ok", "ProcessingError"})
            => (outcome[c] = "ok" /\ returned[c] = <<>>)

\* C11: a process_chunk call that got past the adapter check is rejected with
\* an InputError exactly when the chunk's byte length is odd or above
\* MAX_CHUNK_SIZE; every even length from 0 to MAX_CHUNK_SIZE passes
\* validation, whatever happens to the chunk afterwards.
C11_InputErrorIffOddOrOversized ==
    \A c \in Callers :
        outcome[c] \in {"InputError", "pending", "ok", "ProcessingError"} =>
            (outcome[c] = "InputError"
                <=> (last_chunk[c] % 2 = 1 \/ last_chunk[c] > MAX_CHUNK_SIZE))

\* A chunk of MAX_CHUNK_SIZE + 1 bytes was rejected with an InputError after a
\* chunk of exactly MAX_CHUNK_SIZE bytes had passed validation (and overflowed
\* the frame buffer, the one processing error so far).
C11_Witness ==
    \E c \in Callers :
        /\ outcome[c] = "InputError"
        /\ last_chunk[c] = MAX_CHUNK_SIZE + 1
        /\ error_count = 1
        /\ frames_read = 0

\* C12: a process_chunk call made while the session is not initialized -
\* never initialized, initialization failed, closed, or torn down with a
\* failure - raises a StateError and leaves the session as it was.
C12_NotInitializedRejects ==
    [][\A c \in Callers :
          (calls'[c] = calls[c] + 1 /\ ~is_initialized)
              => (outcome'[c] = "StateError" /\ UNCHANGED sessionVars)]_vars

\* C13: is_initialized is true exactly when the session holds a VADIterator,
\* and a process_chunk call is rejected with a StateError exactly when it is
\* false, after every initialize(), close(), __aexit__ and process_chunk,
\* completed or failed.
C13_InitializedFlagAccurate ==
    /\ [](is_initialized <=> ~IsNone(vad_iterator))
    /\ [][\A c \in Callers :
             calls'[c] = calls[c] + 1 =>
                 (outcome'[c] = "StateError" <=> ~is_initialized)]_vars

\* The last teardown was a close() that returned without an error.
CloseReturned == ~IsNone(teardown) /\ Val(teardown).result = "ok"

\* C14: a close() that returns, whatever the session was before and whatever
\* is in progress on it, leaves the session with neither model nor
\* VADIterator, the frame buffer empty, and the state machine Idle with no
\* open segment and segment counter 0; a second close() right after it returns
\* as well and leaves the session as it is.
C14_CloseReleasesAndIsIdempotent ==
    [][\A fault \in TeardownFaults :
          (CloseLogged(fault) /\ Closed(Session, fault).result = "ok") =>
              /\ IsNone(vad_iterator') /\ IsNone(model') /\ ~is_initialized'
              /\ buffered' = 0
              /\ state' = "idle" /\ IsNone(current_collector')
              /\ segment_counter' = 0
              /\ Closed(Session', "none").session = Session'
              /\ Closed(Session', "none").result = "ok"]_vars

\* close() returned on an initialized session that had an open segment and
\* bytes of an incomplete frame in the buffer.
C14_Witness ==
    /\ CloseReturned
    /\ Val(teardown).adapter
    /\ Val(teardown).state = "collecting"
    /\ Val(teardown).buffered > 0
    /\ IsNone(vad_iterator) /\ IsNone(model) /\ ~is_initialized
    /\ buffered = 0
    /\ state = "idle" /\ IsNone(current_collector) /\ segment_counter = 0

\* The place of a teardown step in the order close() takes them.
Rank(step) == CHOOSE i \in 1..Len(TeardownOrder) : TeardownOrder[i] = step

\* C15: every way out of a teardown marks the session uninitialized: close()
\* does when it returns and when it raises a cleanup error, under __aexit__
\* as on its own, and __aexit__ does once more when it swallows the cleanup
\* error, and never marks it initialized; and the steps a teardown enters are
\* in the order adapter state reset, buffer clear, state-machine reset.
C15_TeardownMarksClosedInOrder ==
    [][/\ \A fault \in TeardownFaults :
              (CloseLogged(fault) \/ AExitLogged(fault)) =>
                  /\ ~is_initialized'
                  /\ LET steps == Closed(Session, fault).steps
                     IN  \A i \in 1..Len(steps) : \A j \in 1..Len(steps) :
                             i < j => Rank(steps[i]) < Rank(steps[j])
       /\ AExitReturn =>
              /\ exiting # "ok" => ~is_initialized'
              /\ is_initialized' => is_initialized]_vars

\* close() raised a cleanup error from the state machine's reset, after the
\* adapter's state was reset and the buffer cleared: the segment is still open.
C15_Witness ==
    /\ ~IsNone(teardown)
    /\ Val(teardown).result = "CleanupError"
    /\ Val(teardown).steps = TeardownOrder
    /\ Val(teardown).buffered > 0
    /\ buffered = 0
    /\ state = "collecting"
    /\ ~is_initialized
    /\ IsNone(vad_iterator)

\* C16: never more than SEMAPHORE_SLOTS calls are inside chunk processing, and
\* while that many are inside, no call enters: a call that arrives is
\* suspended, and a suspended call reads no frame; it leaves the wait only
\* by the cancellation of its task.
C16_AtMostKInside ==
    /\ [](inside <= SEMAPHORE_SLOTS)
    /\ [][inside = SEMAPHORE_SLOTS =>
             /\ inside' <= inside
             /\ frames_read' = frames_read
             /\ suspended' < suspended =>
                    (suspended' = suspended - 1 /\ UNCHANGED procVars)]_vars

\* Two calls more than there are slots are in flight: every slot is taken and
\* the two are suspended.
C16_Witness ==
    /\ inside = SEMAPHORE_SLOTS
    /\ suspended = 2
    /\ sem = 0

\* C17: a process_chunk call that fails inside chunk processing - the write
\* to the frame buffer or an oracle call - counts one error, raises a
\* ProcessingError and returns nothing, whatever results it had collected
\* for earlier frames of the chunk; and the error counter grows in no other
\* way.
C17_ProcessingErrorDiscardsResults ==
    [][/\ \A c \in Callers :
              (outcome'[c] = "ProcessingError"
                   /\ (pc[c] = "oracle" \/ calls'[c] # calls[c]))
              => /\ error_count' = error_count + 1
                 /\ pc'[c] = "idle"
                 /\ returned'[c] = <<>>
       /\ error_count' > error_count =>
              \E c \in Callers :
                  /\ pc[c] = "oracle" \/ calls'[c] # calls[c]
                  /\ outcome'[c] = "ProcessingError"
                  /\ error_count' = error_count + 1]_vars

\* The first call submitted two frames; the first gave a frame result, the
\* oracle call for the second raised, and the call returned nothing.
C17_Witness ==
    \E c \in Callers :
        /\ calls[c] = 1
        /\ last_chunk[c] = 2048
        /\ outcome[c] = "ProcessingError"
        /\ single_frames_count = 1
        /\ error_count = 1
        /\ returned[c] = <<>>

\* C18: a Start verdict after whose on_speech_start the arbiter's state is
\* not Collecting is ignored: the local state, the open segment and the
\* segment counter are as before and no result is emitted, whether or not the
\* arbiter returned an interruption event.
C18_GatekeeperIgnoresStart ==
    [][(/\ Len(hist') = Len(hist) + 1
        /\ hist'[Len(hist')].frame.vad_result = "start"
        /\ system_state' # "collecting")
       => (UNCHANGED smVars /\ IsNone(hist'[Len(hist')].result))]_vars

\* A Start verdict met an arbiter that was Responding outside the debounce
\* window, returned the event and did not enter Collecting, while a segment
\* was open: nothing was emitted, and a later End closed the segment with the
\* frames it had.
C18_Witness ==
    \E i \in 1..Len(hist) :
        /\ Interrupting(hist[i])
        /\ hist[i].pre_system_state = "responding"
        /\ hist[i].post_system_state # "collecting"
        /\ hist[i].pre_state = "collecting"
        /\ IsNone(hist[i].result)
        /\ i < Len(hist)
        /\ IsResult(hist[Len(hist)], "segment")

\* C19: on every End verdict the arbiter's on_speech_end has acted, whatever
\* the local state (a SystemState of Collecting is Idle afterwards, any other
\* is as before); a segment result is emitted exactly when the local state
\* was Collecting, its frames are those of the open segment and then the End
\* frame, and the state machine is Idle with no open segment afterwards;
\* otherwise nothing is emitted and the state machine is as before.
C19_EndVerdict ==
    [][(Len(hist') = Len(hist) + 1 /\ hist'[Len(hist')].frame.vad_result = "end")
       => LET e == hist'[Len(hist')]
          IN  /\ system_state' = IF system_state = "collecting"
                                 THEN "idle" ELSE system_state
              /\ IsResult(e, "segment") <=> state = "collecting"
              /\ state = "collecting" =>
                     /\ Val(Val(e.result).segment).frames =
                            Append(Val(current_collector).frames, e.frame)
                     /\ state' = "idle"
                     /\ IsNone(current_collector')
                     /\ segment_counter' = segment_counter
              /\ state # "collecting" =>
                     (IsNone(e.result) /\ UNCHANGED smVars)]_vars

\* An End verdict closed a segment of three frames, and a later End verdict,
\* with the state machine Idle and the SystemState set to Collecting by the
\* dialogue system, emitted nothing and returned the SystemState to Idle.
C19_Witness ==
    \E i \in 1..Len(hist) : \E j \in 1..Len(hist) :
        /\ i < j
        /\ Verdict(i) = "end"
        /\ IsResult(hist[i], "segment")
        /\ Val(Val(hist[i].result).segment).frame_count = 3
        /\ Verdict(j) = "end"
        /\ hist[j].pre_state = "idle"
        /\ hist[j].pre_system_state = "collecting"
        /\ hist[j].post_system_state = "idle"
        /\ IsNone(hist[j].result)

\* C20: a no-activity verdict changes neither the local state nor the
\* SystemState.  With the state machine Idle it yields one frame result
\* carrying the frame, so N such frames in a row yield N frame results; with
\* the state machine Collecting it yields nothing and the frame is appended
\* to the open segment.
C20_NoActivityVerdict ==
    /\ [](\A i \in 1..Len(hist) :
            Verdict(i) = "none" =>
                /\ hist[i].post_state = hist[i].pre_state
                /\ hist[i].post_system_state = hist[i].pre_system_state
                /\ hist[i].pre_state = "idle" =>
                       hist[i].result =
                           Some(CascadeResult("frame", Some(hist[i].frame),
                                              None, None))
                /\ hist[i].pre_state = "collecting" => IsNone(hist[i].result))
    /\ [][(Len(hist') = Len(hist) + 1
             /\ hist'[Len(hist')].frame.vad_result = "none")
          => /\ UNCHANGED <<state, segment_counter, imVars>>
             /\ current_collector' =
                    IF state = "collecting"
                    THEN Some(AddFrame(Val(current_collector),
                                       hist'[Len(hist')].frame))
                    ELSE current_collector]_vars

\* Two frames of silence gave two frame results; then a segment was opened
\* and a third frame of silence was appended to it without a result.
C20_Witness ==
    /\ Len(hist) = 4
    /\ Verdict(1) = "none" /\ IsResult(hist[1], "frame")
    /\ Verdict(2) = "none" /\ IsResult(hist[2], "frame")
    /\ Verdict(3) = "start"
    /\ Verdict(4) = "none" /\ IsNone(hist[4].result)
    /\ ~IsNone(current_collector)
    /\ Val(current_collector).frames = <<hist[3].frame, hist[4].frame>>
    /\ state = "collecting"
    /\ system_state = "collecting"

\* The results a step of caller c added to those of its call.
Produced(c) ==
    LET out == IF pc'[c] = "oracle" THEN results'[c] ELSE returned'[c]
    IN  SubSeq(out, Len(results[c]) + 1, Len(out))

\* How many of the results rs are of the given type.
CountOf(rs, type) ==
    Cardinality({i \in 1..Len(rs) : rs[i].result_type = type})

\* C21: between reset_stats calls the frame-result counter counts the frame
\* results the state machine produced and the segment counter the segment
\* results; an interruption result moves neither.  Step by step: a frame
\* handed to the state machine moves each counter by the number of results of
\* its type, and no other step moves them but reset_stats, to zero.
C21_CountersMatchResults ==
    [][/\ \A c \in Callers :
              (pc[c] = "oracle" /\ frame_counter' = frame_counter + 1) =>
                  /\ single_frames_count' =
                         single_frames_count + CountOf(Produced(c), "frame")
                  /\ speech_segments_count' =
                         speech_segments_count + CountOf(Produced(c), "segment")
       /\ frame_counter' = frame_counter =>
              \/ UNCHANGED <<single_frames_count, speech_segments_count>>
              \/ single_frames_count' = 0 /\ speech_segments_count' = 0]_vars

\* C22: a process_chunk call that returns without error has handed to the
\* oracle and the state machine every complete frame of the bytes left over
\* and its own, floor((r + n) / FRAME_BYTES) of them, in the order of the
\* buffer, and leaves the trailing partial frame, fewer than FRAME_BYTES
\* bytes, in the buffer.
C22_EveryCompleteFrameProcessed ==
    [][\A c \in Callers :
          (/\ pc[c] = "oracle" \/ calls'[c] # calls[c]
           /\ pc'[c] = "idle"
           /\ outcome'[c] = "ok") =>
              LET r == call_start'[c].buffered
                  n == last_chunk'[c]
                  first == call_start'[c].fed
              IN  /\ Len(fed') - first = (r + n) \div FRAME_BYTES
                  /\ buffered' = (r + n) % FRAME_BYTES
                  /\ buffered' < FRAME_BYTES
                  /\ \A i \in (first + 1)..Len(fed') :
                         fed'[i].audio_data = frames_read' - (Len(fed') - i)]_vars

\* A call of two frames found half a frame left over by an earlier call, fed
\* two frames and left half a frame behind.
C22_Witness ==
    \E c \in Callers :
        /\ outcome[c] = "ok"
        /\ call_start[c].buffered = 512
        /\ last_chunk[c] = 2048
        /\ Len(fed) - call_start[c].fed = 2
        /\ buffered = 512

\* The segments opened since the state machine was constructed or last reset:
\* the frames of the history that took it from Idle to Collecting.
Openings ==
    {i \in 1..Len(hist) :
        hist[i].pre_state = "idle" /\ hist[i].post_state = "collecting"}

\* The step replaces the collector: a segment is opened.
OpensSegment ==
    /\ ~IsNone(current_collector')
    /\ \/ IsNone(current_collector)
       \/ Val(current_collector').segment_id # Val(current_collector).segment_id

\* C23: the state machine holds at most one open segment, and holds one
\* exactly when its local state is Collecting; a segment is opened only from
\* Idle; and the segments opened since construction or the last reset carry
\* the ids 1, 2, 3, ... in the order they were opened.
C23_OneSegmentOpenedFromIdle ==
    /\ [](/\ (state = "collecting") <=> ~IsNone(current_collector)
          /\ Cardinality(OpenSegments) <= 1
          /\ segment_counter = Cardinality(Openings)
          /\ ~IsNone(current_collector) =>
                Val(current_collector).segment_id = segment_counter)
    /\ [][/\ OpensSegment =>
               /\ state = "idle"
               /\ IsNone(current_collector)
               /\ segment_counter' = segment_counter + 1
               /\ Val(current_collector').segment_id = segment_counter + 1
          /\ segment_counter' # segment_counter =>
               \/ OpensSegment
               \/ segment_counter' = 0 /\ state' = "idle"
                    /\ IsNone(current_collector')]_vars

\* The second segment since a reset has been opened after the first was
\* closed, and carries id 2.
C23_Witness ==
    /\ state = "collecting"
    /\ segment_counter = 2
    /\ Val(current_collector).segment_id = 2
    /\ \E i \in 1..Len(hist) : IsResult(hist[i], "segment")
                                /\ Val(Val(hist[i].result).segment).segment_id = 1

\* C24: a chunk that passes validation, submitted by a sequential caller to
\* an initialized session none of whose earlier calls has failed, is written
\* to the frame buffer within its capacity: the call raises no
\* ProcessingError at the write.
C24_ValidChunkFitsBuffer ==
    [][\A c \in Callers :
          (/\ calls'[c] # calls[c]
           /\ error_count = 0
           /\ ~IsNone(vad_iterator)
           /\ ValidateAudioChunk(last_chunk'[c]) = "ok") =>
              /\ WriteFits(buffered, last_chunk'[c])
              /\ error_count' = 0
              /\ outcome'[c] # "ProcessingError"]_vars

\* C25: the admission slot is given back on every way out of chunk
\* processing, the normal return and the ProcessingError alike: the free
\* slots and the calls inside always add up to SEMAPHORE_SLOTS, so all slots
\* are free whenever no call is inside; and, the oracle calls in flight
\* returning or failing, a call that waits for a slot is eventually admitted
\* (a call waits only once SEMAPHORE_SLOTS calls have been admitted, and every
\* admission reads one frame).
C25_SlotAlwaysReleased ==
    /\ [](/\ sem + inside = SEMAPHORE_SLOTS
          /\ inside = 0 => sem = SEMAPHORE_SLOTS
          /\ suspended > 0 => frames_read >= SEMAPHORE_SLOTS)
    /\ \A n \in SEMAPHORE_SLOTS..AdmissionCalls :
          (suspended > 0 /\ frames_read = n) ~> (frames_read > n)

\* Every call issued has been through chunk processing, some returning and
\* some failing, more calls than there are slots: no call is left inside or
\* waiting, and every slot is free.
C25_Witness ==
    /\ frames_read = AdmissionCalls
    /\ total_chunks_processed > 0
    /\ error_count > 0
    /\ inside = 0
    /\ suspended = 0
    /\ sem = SEMAPHORE_SLOTS

\* The frames handed to the state machine carry the ids 1, 2, 3, ... in the
\* order they were handed over.
IdsGapFree == \A i \in 1..Len(fed) : fed[i].frame_id = i

\* The frames were numbered in the order they were read from the frame
\* buffer (audio_data is the frame's place in the buffer's stream).
IdsInReadOrder ==
    \A i, j \in 1..Len(fed) :
        i < j => fed[i].audio_data < fed[j].audio_data

\* C26: when process_chunk calls on one session interleave at the oracle
\* call, the frame ids stay unique and gap-free, the state machine receives
\* the frames in increasing id order, and the frames are numbered in the
\* order in which they were read from the frame buffer.
C26_InterleavedIdsFollowReadOrder == IdsGapFree /\ IdsInReadOrder

====
